---------------------------- MODULE Spec2Model ----------------------------
(***************************************************************************)
(* Model of the car-service booking app (Task 5/streamlit_service_app.py)  *)
(* and of the shopping cart of the e-commerce tracker                      *)
(* (Task 6/ecommerce_tracker.py).                                          *)
(*                                                                         *)
(* Text is modelled as a sequence of one-character strings, so that        *)
(* str.strip, strftime("%H:%M"), split(":") and int() are computed and not *)
(* assumed.  A CSV file is a sequence of lines, each line a sequence of    *)
(* fields, the first line being the header csv.DictReader keys rows by.    *)
(***************************************************************************)
EXTENDS Integers, Sequences, FiniteSets, TLC

VARIABLES
    csv,             \* appointments.csv : [exists, lines]
    tmp,             \* appointments.csv.tmp : [exists, lines]
    buffer_minutes,  \* st.session_state['buffer_minutes']
    pending_delete,  \* st.session_state['pending_delete'] (NoneVal = None)
    clock,           \* number of datetime.now() timestamps handed out
    event,           \* the last script run: what was pressed, its inputs, its outcome
    call,            \* the last direct call of a helper: arguments, file before, result
    ow,              \* a running overwrite_appointments call: pc, old lines, rows
    cart,            \* st.session_state['cart'] of the e-commerce tracker
    cartCall,        \* the last cart helper call: name, cart before
    repl,            \* the text-analysis loop: pc, stdin, lines read, what was printed
    sess             \* per browser session: where its booking script run stands

vars == <<csv, tmp, buffer_minutes, pending_delete, clock, event, call, ow, cart, cartCall, repl, sess>>

---------------------------------------------------------------------------
(* Text *)

\* Python's None, and a missing value, kept distinct from every text.
NoneVal == <<"None">>

EmptyStr == <<>>

\* Python truthiness of an Optional[str]: None and "" are falsy.
Truthy(s) == s # NoneVal /\ s # EmptyStr

IsSpace(c) == c = " "

\* str.strip(): drop leading and trailing whitespace.
RECURSIVE LStrip(_)
LStrip(s) == IF s # <<>> /\ IsSpace(Head(s)) THEN LStrip(Tail(s)) ELSE s

RECURSIVE RStrip(_)
RStrip(s) ==
    IF s # <<>> /\ IsSpace(s[Len(s)]) THEN RStrip(SubSeq(s, 1, Len(s) - 1)) ELSE s

Strip(s) == RStrip(LStrip(s))

DIGITS == <<"0", "1", "2", "3", "4", "5", "6", "7", "8", "9">>

DigitChar(n) == DIGITS[n + 1]

IsDigit(c) == \E i \in 1..Len(DIGITS) : DIGITS[i] = c

DigitVal(c) == (CHOOSE i \in 1..Len(DIGITS) : DIGITS[i] = c) - 1

\* zero-padded decimal of width 2 (%H, %M, and the month and day of isoformat)
Pad2(n) == <<DigitChar((n \div 10) % 10), DigitChar(n % 10)>>

\* zero-padded decimal of width 4 (the year of isoformat)
Pad4(n) == Pad2(n \div 100) \o Pad2(n % 100)

\* int(text) for a run of decimal digits; anything else raises ValueError.
IsInt(s) == s # <<>> /\ \A i \in 1..Len(s) : IsDigit(s[i])

RECURSIVE ToInt(_)
ToInt(s) ==
    IF s = <<>> THEN 0
    ELSE ToInt(SubSeq(s, 1, Len(s) - 1)) * 10 + DigitVal(s[Len(s)])

\* text.split(":")
RECURSIVE SplitColon(_)
SplitColon(s) ==
    IF \A i \in 1..Len(s) : s[i] # ":" THEN <<s>>
    ELSE LET k == CHOOSE i \in 1..Len(s) :
                      s[i] = ":" /\ \A j \in 1..(i - 1) : s[j] # ":"
         IN  <<SubSeq(s, 1, k - 1)>> \o SplitColon(SubSeq(s, k + 1, Len(s)))

\* appt_time.strftime("%H:%M") of a datetime.time
StrfTime(t) == Pad2(t.hour) \o <<":">> \o Pad2(t.minute)

\* date.isoformat()
IsoFormat(d) == Pad4(d.year) \o <<"-">> \o Pad2(d.month) \o <<"-">> \o Pad2(d.day)

\* appt_date < today on datetime.date values
DateLess(a, b) ==
    \/ a.year < b.year
    \/ a.year = b.year /\ a.month < b.month
    \/ a.year = b.year /\ a.month = b.month /\ a.day < b.day

\* h, m = map(int, text.split(":")); total = h * 60 + m; an exception gives ok = FALSE
ParseMinutes(s) ==
    LET parts == SplitColon(s)
    IN  IF Len(parts) = 2 /\ IsInt(parts[1]) /\ IsInt(parts[2])
        THEN [ok |-> TRUE, total |-> ToInt(parts[1]) * 60 + ToInt(parts[2])]
        ELSE [ok |-> FALSE, total |-> 0]

Abs(x) == IF x < 0 THEN -x ELSE x

---------------------------------------------------------------------------
(* The CSV file *)

ColTimestamp == <<"timestamp">>
ColName == <<"name">>
ColContact == <<"contact">>
ColDate == <<"date">>
ColTime == <<"time">>
ColIssue == <<"issue_type">>
ColNotes == <<"notes">>

\* the header row written by ensure_csv_exists and overwrite_appointments
HEADER == <<ColTimestamp, ColName, ColContact, ColDate, ColTime, ColIssue, ColNotes>>

NoFile == [exists |-> FALSE, lines |-> <<>>]

\* ensure_csv_exists(path)
ensure_csv_exists(f) ==
    IF ~f.exists THEN [exists |-> TRUE, lines |-> <<HEADER>>] ELSE f

\* append_appointment(path, row): open(path, "a") and write one line
append_appointment(f, row) ==
    LET g == ensure_csv_exists(f) IN [g EXCEPT !.lines = Append(@, row)]

\* A row dict of csv.DictReader: the field names (fn) zipped with the line (v).
RowDict(fieldnames, line) == [fn |-> fieldnames, v |-> line]

\* r.get(key): with a repeated field name dict(zip(..)) keeps the last value
Get(r, key) ==
    LET n == IF Len(r.fn) < Len(r.v) THEN Len(r.fn) ELSE Len(r.v)
        hits == {j \in 1..n : r.fn[j] = key}
    IN  IF hits = {} THEN NoneVal
        ELSE r.v[CHOOSE j \in hits : \A k \in hits : k <= j]

\* read_appointments(path): list(csv.DictReader(f)), [] when the file is missing
read_appointments(f) ==
    IF ~f.exists \/ f.lines = <<>> THEN <<>>
    ELSE [i \in 1..(Len(f.lines) - 1) |-> RowDict(f.lines[1], f.lines[i + 1])]

\* list(rows[0].keys()): the field names in first-occurrence order
RECURSIVE Dedupe(_)
Dedupe(s) ==
    IF s = <<>> THEN <<>>
    ELSE LET init == SubSeq(s, 1, Len(s) - 1)
             last == s[Len(s)]
         IN  IF \E i \in 1..Len(init) : init[i] = last
             THEN Dedupe(init) ELSE Append(Dedupe(init), last)

Keys(r) == Dedupe(r.fn)

\* csv.DictWriter.writerow(r): the values in fieldnames order, None written as ""
DictLine(keys, r) ==
    [j \in 1..Len(keys) |->
        LET value == Get(r, keys[j]) IN IF value = NoneVal THEN EmptyStr ELSE value]

\* The lines overwrite_appointments writes for a non-empty list of rows.
DictLines(rows) ==
    LET keys == Keys(rows[1])
    IN  <<keys>> \o [i \in 1..Len(rows) |-> DictLine(keys, rows[i])]


\* overwrite_appointments(path, rows) run to completion: the header-only branch
\* rewrites the file in place; otherwise the rows go to path + ".tmp", which
\* os.replace then moves over path.
overwrite_appointments(f, t, rows) ==
    IF rows = <<>>
    THEN [csv |-> [exists |-> TRUE, lines |-> <<HEADER>>], tmp |-> t]
    ELSE [csv |-> [exists |-> TRUE, lines |-> DictLines(rows)], tmp |-> NoFile]

\* KeptRows dropping only the first row with the timestamp
KeptRowsFirstOnly(rows, timestamp) ==
    LET hits == {i \in 1..Len(rows) : Get(rows[i], ColTimestamp) = timestamp}
        k == CHOOSE i \in hits : \A j \in hits : i <= j
    IN  IF hits = {} THEN rows
        ELSE SubSeq(rows, 1, k - 1) \o SubSeq(rows, k + 1, Len(rows))

\* new_rows = [r for r in rows if r.get("timestamp") != timestamp]
KeptRows(rows, timestamp) ==
    SelectSeq(rows, LAMBDA r : Get(r, ColTimestamp) # timestamp)

\* delete_appointment(path, timestamp): the result and the files afterwards
delete_appointment(f, t, timestamp) ==
    LET rows == read_appointments(f)
        new_rows == KeptRows(rows, timestamp)
    IN  IF Len(new_rows) = Len(rows)
        THEN [ret |-> FALSE, csv |-> f, tmp |-> t]
        ELSE [ret |-> TRUE] @@ overwrite_appointments(f, t, new_rows)

\* FirstIndex without the break: the last row with the timestamp
LastIndex(rows, timestamp) ==
    LET hits == {i \in 1..Len(rows) : Get(rows[i], ColTimestamp) = timestamp}
    IN  IF hits = {} THEN 0 ELSE CHOOSE i \in hits : \A j \in hits : j <= i

\* the index the for/enumerate loop of update_appointment breaks at, 0 if none
FirstIndex(rows, timestamp) ==
    LET hits == {i \in 1..Len(rows) : Get(rows[i], ColTimestamp) = timestamp}
    IN  IF hits = {} THEN 0 ELSE CHOOSE i \in hits : \A j \in hits : i <= j

\* update_appointment(path, timestamp, new_row): the result and the files afterwards
update_appointment(f, t, timestamp, new_row) ==
    LET rows == read_appointments(f)
        i == FirstIndex(rows, timestamp)
    IN  IF i = 0
        THEN [ret |-> FALSE, csv |-> f, tmp |-> t]
        ELSE [ret |-> TRUE]
                 @@ overwrite_appointments(f, t, [rows EXCEPT ![i] = new_row])

\* RowConflicts with the buffer compared by < instead of <=
RowConflictsStrict(r, appt_date, appt_time, ignore_ts, buffer, req) ==
    IF Truthy(ignore_ts) /\ Get(r, ColTimestamp) = ignore_ts THEN FALSE
    ELSE IF Get(r, ColDate) # appt_date THEN FALSE
    ELSE IF ~Truthy(Get(r, ColTime)) THEN FALSE
    ELSE IF req.ok
         THEN LET other == ParseMinutes(Get(r, ColTime))
              IN  IF ~other.ok THEN Get(r, ColTime) = appt_time
                  ELSE \/ buffer # 0 /\ Abs(other.total - req.total) < buffer
                       \/ other.total = req.total /\ buffer = 0
         ELSE Get(r, ColTime) = appt_time

\* RowConflicts without the exact-match test of the disabled buffer
RowConflictsBufferOnly(r, appt_date, appt_time, ignore_ts, buffer, req) ==
    IF Truthy(ignore_ts) /\ Get(r, ColTimestamp) = ignore_ts THEN FALSE
    ELSE IF Get(r, ColDate) # appt_date THEN FALSE
    ELSE IF ~Truthy(Get(r, ColTime)) THEN FALSE
    ELSE IF req.ok
         THEN LET other == ParseMinutes(Get(r, ColTime))
              IN  IF ~other.ok THEN Get(r, ColTime) = appt_time
                  ELSE buffer # 0 /\ Abs(other.total - req.total) <= buffer
         ELSE Get(r, ColTime) = appt_time

\* One pass of the loop body of find_conflict: TRUE where it returns True,
\* FALSE where it continues.  req is the parsed requested time.
RowConflicts(r, appt_date, appt_time, ignore_ts, buffer, req) ==
    IF Truthy(ignore_ts) /\ Get(r, ColTimestamp) = ignore_ts THEN FALSE
    ELSE IF Get(r, ColDate) # appt_date THEN FALSE
    ELSE IF ~Truthy(Get(r, ColTime)) THEN FALSE
    ELSE IF req.ok
         THEN LET other == ParseMinutes(Get(r, ColTime))
              IN  IF ~other.ok THEN Get(r, ColTime) = appt_time
                  ELSE \/ buffer # 0 /\ Abs(other.total - req.total) <= buffer
                       \/ other.total = req.total /\ buffer = 0
         ELSE Get(r, ColTime) = appt_time

\* find_conflict(path, appt_date, appt_time, ignore_ts, buffer_minutes)
find_conflict(f, appt_date, appt_time, ignore_ts, buffer) ==
    LET rows == read_appointments(f)
        req == ParseMinutes(appt_time)
    IN  \E i \in 1..Len(rows) :
            RowConflicts(rows[i], appt_date, appt_time, ignore_ts, buffer, req)

---------------------------------------------------------------------------
(* The booking page: one action per script run, named by the widget that
   triggered the run.  The list filters and the pager only choose which stored
   appointments the select box offers; every stored appointment can be offered,
   so the selection is drawn from all of them. *)

ISSUE_TYPES ==
    << <<"Regular Maintenance">>, <<"Engine Problem">>, <<"Electrical / Battery">>,
       <<"Brakes / Suspension">>, <<"Tires / Wheels">>, <<"Other">> >>

\* date.today() during the session
Today == [year |-> 2026, month |-> 11, day |-> 30]

Yesterday == [year |-> 2026, month |-> 11, day |-> 29]

Tomorrow == [year |-> 2026, month |-> 12, day |-> 1]

\* datetime.now().isoformat(): the c-th instant read during the session
NowIso(c) == IsoFormat(Today) \o <<"T">> \o Pad2(c)

\* most timestamps one session hands out
MaxClock == 2

\* values typed into the forms
Names == {<<" ">>, <<" ", "A", " ">>}

Contacts == {<<>>, <<"5", " ">>}

\* the typed values that pass the validation
GoodNames == {n \in Names : Strip(n) # EmptyStr}

GoodContacts == {c \in Contacts : Strip(c) # EmptyStr}

NotesTyped == {<<" ", "n">>}

\* values typed into the edit form
EditNames == {<<"B", " ">>}

EditContacts == {<<" ", "6">>}

Issues == {ISSUE_TYPES[2]}

Dates == {Yesterday, Today, Tomorrow}

DatesAhead == {Today, Tomorrow}

Times == {[hour |-> 0, minute |-> 5], [hour |-> 0, minute |-> 20]}

TimesMidnight == Times \cup {[hour |-> 23, minute |-> 50]}

Buffers == {0, 15}

BuffersOn == {15, 30}

NoEvent == [kind |-> "start"]

NoCall == [fn |-> "none"]

OwIdle == [pc |-> "idle"]

NoCartCall == [fn |-> "none"]

\* the text-analysis program is not running
ReplIdle == [pc |-> "off", stdin |-> <<>>, pos |-> 0, out |-> <<>>]

\* the browser sessions of the booking page
Sessions == {1, 2}

\* a session with no script run under way
NoRun == [pc |-> "idle", buffer |-> 0, form |-> NoneVal, row |-> NoneVal]

SessIdle == [s \in Sessions |-> NoRun]

\* the timestamps of the stored appointments, as line 222 reads them
StoredIds(f) ==
    {Get(read_appointments(f)[i], ColTimestamp) : i \in 1..Len(read_appointments(f))}

\* next((r for r in appointments if r.get('timestamp') == ts), None)
Current(f, ts) ==
    read_appointments(f)[FirstIndex(read_appointments(f), ts)]

\* BookingErrors testing the typed values without strip()
BookingErrorsUnstripped(name, contact, appt_date) ==
    \/ name = EmptyStr
    \/ contact = EmptyStr
    \/ DateLess(appt_date, Today)

\* the basic validation of the booking form: TRUE when errors is non-empty
BookingErrors(name, contact, appt_date) ==
    \/ Strip(name) = EmptyStr
    \/ Strip(contact) = EmptyStr
    \/ DateLess(appt_date, Today)

\* BookingRow storing the notes as typed
BookingRowRawNotes(timestamp, name, contact, nd, nt, issue_type, notes) ==
    <<timestamp, Strip(name), Strip(contact), nd, nt, issue_type, notes>>

\* the row the booking form appends
BookingRow(timestamp, name, contact, nd, nt, issue_type, notes) ==
    <<timestamp, Strip(name), Strip(contact), nd, nt, issue_type, Strip(notes)>>

\* new_row of the edit form
EditedRow(current, new_name, new_contact, nd, nt, new_issue, new_notes) ==
    RowDict(HEADER,
            <<Get(current, ColTimestamp), Strip(new_name), Strip(new_contact),
              nd, nt, new_issue, Strip(new_notes)>>)

\* The number input of the settings expander.
SetBuffer(b) ==
    /\ buffer_minutes' = b
    /\ event' = [kind |-> "buffer", outcome |-> "set"]
    /\ UNCHANGED <<csv, tmp, pending_delete, clock, call, ow, cart, cartCall, repl, sess>>

\* "Book appointment" of appointment_form.
SubmitBooking(name, contact, appt_date, appt_time, issue_type, notes) ==
    LET nd == IsoFormat(appt_date)
        nt == StrfTime(appt_time)
        inputs == [kind |-> "book", name |-> name, contact |-> contact,
                   date |-> appt_date, time |-> appt_time,
                   issue_type |-> issue_type, notes |-> notes]
    IN  IF BookingErrors(name, contact, appt_date)
        THEN /\ event' = inputs @@ [outcome |-> "error"]
             /\ UNCHANGED <<csv, tmp, clock>>
        ELSE IF find_conflict(csv, nd, nt, NoneVal, buffer_minutes)
        THEN /\ event' = inputs @@ [outcome |-> "conflict"]
             /\ UNCHANGED <<csv, tmp, clock>>
        ELSE /\ clock < MaxClock
             /\ clock' = clock + 1
             /\ csv' = append_appointment(csv,
                    BookingRow(NowIso(clock'), name, contact, nd, nt, issue_type, notes))
             /\ event' = inputs @@ [outcome |-> "saved"]
             /\ UNCHANGED tmp

Book(names, contacts, dates, times) ==
    /\ \E name \in names, contact \in contacts, d \in dates, t \in times,
          issue_type \in Issues, notes \in NotesTyped :
           SubmitBooking(name, contact, d, t, issue_type, notes)
    /\ UNCHANGED <<buffer_minutes, pending_delete, call, ow, cart, cartCall, repl, sess>>

\* "Save changes" of edit_form_{ts}, ts being the selected appointment.
SaveChanges(ts, new_name, new_contact, new_date, new_time, new_issue, new_notes) ==
    \E current \in {Current(csv, ts)} :
    LET nd == IsoFormat(new_date)
        nt == StrfTime(new_time)
        inputs == [kind |-> "edit", ts |-> ts, name |-> new_name,
                   contact |-> new_contact, date |-> new_date, time |-> new_time,
                   issue_type |-> new_issue, notes |-> new_notes]
    IN  IF find_conflict(csv, nd, nt, Get(current, ColTimestamp), buffer_minutes)
        THEN /\ event' = inputs @@ [outcome |-> "conflict"]
             /\ UNCHANGED <<csv, tmp>>
        ELSE \E done \in {update_appointment(csv, tmp, Get(current, ColTimestamp),
                    EditedRow(current, new_name, new_contact, nd, nt, new_issue, new_notes))} :
             /\ csv' = done.csv
             /\ tmp' = done.tmp
             /\ event' = inputs @@ [outcome |-> IF done.ret THEN "updated" ELSE "failed"]

Edit(dates, times) ==
    /\ \E ts \in StoredIds(csv), name \in EditNames, contact \in EditContacts, d \in dates,
          t \in times, issue_type \in Issues, notes \in NotesTyped :
           SaveChanges(ts, name, contact, d, t, issue_type, notes)
    /\ UNCHANGED <<buffer_minutes, pending_delete, clock, call, ow, cart, cartCall, repl, sess>>

\* PressDelete deleting at once instead of asking for the confirmation
PressDeleteRemoves ==
    /\ \E ts \in StoredIds(csv) :
           \E done \in {delete_appointment(csv, tmp, ts)} :
               /\ csv' = done.csv
               /\ tmp' = done.tmp
               /\ pending_delete' = ts
               /\ event' = [kind |-> "delete", ts |-> ts, outcome |-> "pending"]
    /\ UNCHANGED <<buffer_minutes, clock, call, ow, cart, cartCall, repl, sess>>

\* "Delete appointment" under the selected appointment ts.
PressDelete ==
    /\ \E ts \in StoredIds(csv) :
           /\ pending_delete' = ts
           /\ event' = [kind |-> "delete", ts |-> ts, outcome |-> "pending"]
    /\ UNCHANGED <<csv, tmp, buffer_minutes, clock, call, ow, cart, cartCall, repl, sess>>

\* the confirmation area is drawn: a pending id that a stored appointment has
ConfirmationShown ==
    /\ read_appointments(csv) # <<>>
    /\ Truthy(pending_delete)
    /\ pending_delete \in StoredIds(csv)

\* "Confirm deletion".
ConfirmDeletion ==
    /\ ConfirmationShown
    /\ \E done \in {delete_appointment(csv, tmp, pending_delete)} :
           /\ csv' = done.csv
           /\ tmp' = done.tmp
           /\ pending_delete' = NoneVal
           /\ event' = [kind |-> "confirm", ts |-> pending_delete,
                        outcome |-> IF done.ret THEN "deleted" ELSE "failed"]
    /\ UNCHANGED <<buffer_minutes, clock, call, ow, cart, cartCall, repl, sess>>

\* "Cancel".
CancelDeletion ==
    /\ ConfirmationShown
    /\ pending_delete' = NoneVal
    /\ event' = [kind |-> "cancel", ts |-> pending_delete, outcome |-> "cancelled"]
    /\ UNCHANGED <<csv, tmp, buffer_minutes, clock, call, ow, cart, cartCall, repl, sess>>

\* A new session on an empty appointments file (missing, or holding its header),
\* the buffer setting starting at one of buffers.
Start(buffers) ==
    /\ csv \in {NoFile, ensure_csv_exists(NoFile)}
    /\ tmp = NoFile
    /\ buffer_minutes \in buffers
    /\ pending_delete = NoneVal
    /\ clock = 0
    /\ event = NoEvent
    /\ call = NoCall
    /\ ow = OwIdle
    /\ cart = <<>>
    /\ cartCall = NoCartCall
    /\ repl = ReplIdle
    /\ sess = SessIdle

\* One session using the page: bookings, edits, deletions, any buffer setting.
Init == Start({0})

Next ==
    \/ \E b \in Buffers : SetBuffer(b)
    \/ Book(GoodNames, GoodContacts, DatesAhead, Times)
    \/ Edit(DatesAhead, Times)
    \/ PressDelete
    \/ ConfirmDeletion
    \/ CancelDeletion

Spec == Init /\ [][Next]_vars

\* The same session with the buffer setting left at one positive value.
InitConst == Start(BuffersOn)

NextConst ==
    \/ Book(GoodNames, GoodContacts, DatesAhead, TimesMidnight)
    \/ Edit(DatesAhead, TimesMidnight)
    \/ PressDelete
    \/ ConfirmDeletion
    \/ CancelDeletion

SpecConst == InitConst /\ [][NextConst]_vars

\* The booking form with every kind of typed value, and deletions.
NextForm ==
    \/ \E b \in Buffers : SetBuffer(b)
    \/ Book(Names, Contacts, Dates, Times)
    \/ PressDelete
    \/ ConfirmDeletion

SpecForm == Init /\ [][NextForm]_vars

---------------------------------------------------------------------------
(* The file helpers called directly, on any appointments file: rows in any
   order, timestamps repeated or empty, the file missing. *)

\* most rows of a file the helpers are called on
MaxFnRows == 3

FnTimestamps == {EmptyStr, <<"T", "1">>}

FnLookups == FnTimestamps \cup {<<"T", "2">>}

FnLines ==
    {<<ts, <<"A">>, <<"5">>, IsoFormat(d), StrfTime(t), ISSUE_TYPES[1], <<"n">> >> :
        ts \in FnTimestamps, d \in DatesAhead, t \in Times}

FnFiles ==
    {NoFile} \cup
    {[exists |-> TRUE, lines |-> <<HEADER>> \o rows] :
        rows \in UNION {[1..k -> FnLines] : k \in 0..MaxFnRows}}

FnBuffers == {0, 10, 15}

FnNewRows ==
    {RowDict(HEADER, <<ts, <<"Z">>, <<"6">>, IsoFormat(Tomorrow),
                       StrfTime([hour |-> 0, minute |-> 20]), ISSUE_TYPES[6], EmptyStr>>) :
        ts \in {<<"T", "9">>}}

\* find_conflict(APP_CSV, d, t, ignore_ts, buffer_minutes): it only reads the file
CallFindConflict(d, t, ignore_ts, buffer) ==
    /\ call' = [fn |-> "find_conflict", date |-> d, time |-> t, ignore_ts |-> ignore_ts,
                buffer |-> buffer, before |-> csv,
                ret |-> find_conflict(csv, d, t, ignore_ts, buffer)]
    /\ UNCHANGED <<csv, tmp, buffer_minutes, pending_delete, clock, event, ow, cart, cartCall, repl, sess>>

\* delete_appointment(APP_CSV, timestamp)
CallDelete(timestamp) ==
    /\ \E done \in {delete_appointment(csv, tmp, timestamp)} :
           /\ csv' = done.csv
           /\ tmp' = done.tmp
           /\ call' = [fn |-> "delete", timestamp |-> timestamp, before |-> csv,
                       ret |-> done.ret]
    /\ UNCHANGED <<buffer_minutes, pending_delete, clock, event, ow, cart, cartCall, repl, sess>>

\* update_appointment(APP_CSV, timestamp, new_row)
CallUpdate(timestamp, new_row) ==
    /\ \E done \in {update_appointment(csv, tmp, timestamp, new_row)} :
           /\ csv' = done.csv
           /\ tmp' = done.tmp
           /\ call' = [fn |-> "update", timestamp |-> timestamp, new_row |-> new_row,
                       before |-> csv, ret |-> done.ret]
    /\ UNCHANGED <<buffer_minutes, pending_delete, clock, event, ow, cart, cartCall, repl, sess>>

InitFn ==
    /\ csv \in FnFiles
    /\ tmp = NoFile
    /\ buffer_minutes = 0
    /\ pending_delete = NoneVal
    /\ clock = 0
    /\ event = NoEvent
    /\ call = NoCall
    /\ ow = OwIdle
    /\ cart = <<>>
    /\ cartCall = NoCartCall
    /\ repl = ReplIdle
    /\ sess = SessIdle

NextFn ==
    \/ \E ignore_ts \in {NoneVal} \cup FnTimestamps, buffer \in FnBuffers :
           CallFindConflict(IsoFormat(Today), StrfTime([hour |-> 0, minute |-> 5]),
                            ignore_ts, buffer)
    \/ \E timestamp \in FnLookups : CallDelete(timestamp)
    \/ \E timestamp \in FnLookups, new_row \in FnNewRows : CallUpdate(timestamp, new_row)

SpecFn == InitFn /\ [][NextFn]_vars

---------------------------------------------------------------------------
(* overwrite_appointments step by step: every open, flush-at-close and
   os.replace is one step, and the process can be killed between two steps.
   What csv holds between the steps is what another session, or the restarted
   app, reads. *)

OwLines ==
    {<<ts, <<"A">>, <<"5">>, IsoFormat(Today), StrfTime(t), ISSUE_TYPES[1], <<"n">> >> :
        ts \in {<<"T", "1">>}, t \in TimesMidnight}

\* most rows of the file, and of the list, of a stepwise overwrite
MaxOwRows == 2

OwFiles ==
    {[exists |-> TRUE, lines |-> <<HEADER>> \o rows] :
        rows \in UNION {[1..k -> OwLines] : k \in 0..MaxOwRows}}

\* overwrite_appointments(APP_CSV, rows) is called
OwBegin ==
    /\ ow.pc = "idle"
    /\ \E g \in OwFiles :
           ow' = [pc |-> "begin", old |-> csv, rows |-> read_appointments(g)]
    /\ UNCHANGED <<csv, tmp>>
    /\ UNCHANGED <<buffer_minutes, pending_delete, clock, event, call, cart, cartCall, repl, sess>>

\* if not rows: open(path, "w") truncates the file
OwTruncate ==
    /\ ow.pc = "begin" /\ ow.rows = <<>>
    /\ csv' = [exists |-> TRUE, lines |-> <<>>]
    /\ ow' = [ow EXCEPT !.pc = "header"]
    /\ UNCHANGED tmp
    /\ UNCHANGED <<buffer_minutes, pending_delete, clock, event, call, cart, cartCall, repl, sess>>

\* writer.writerow(header), flushed when the with block closes the file; return
OwWriteHeader ==
    /\ ow.pc = "header"
    /\ csv' = [csv EXCEPT !.lines = Append(@, HEADER)]
    /\ ow' = [ow EXCEPT !.pc = "done"]
    /\ UNCHANGED tmp
    /\ UNCHANGED <<buffer_minutes, pending_delete, clock, event, call, cart, cartCall, repl, sess>>

\* open(tmp, "w")
OwOpenTmp ==
    /\ ow.pc = "begin" /\ ow.rows # <<>>
    /\ tmp' = [exists |-> TRUE, lines |-> <<>>]
    /\ ow' = [ow EXCEPT !.pc = "tmp_open"]
    /\ UNCHANGED csv
    /\ UNCHANGED <<buffer_minutes, pending_delete, clock, event, call, cart, cartCall, repl, sess>>

\* writeheader and the writerow loop, flushed when the with block closes tmp
OwWriteTmp ==
    /\ ow.pc = "tmp_open"
    /\ tmp' = [tmp EXCEPT !.lines = DictLines(ow.rows)]
    /\ ow' = [ow EXCEPT !.pc = "tmp_written"]
    /\ UNCHANGED csv
    /\ UNCHANGED <<buffer_minutes, pending_delete, clock, event, call, cart, cartCall, repl, sess>>

\* os.replace(tmp, path)
OwReplace ==
    /\ ow.pc = "tmp_written"
    /\ csv' = tmp
    /\ tmp' = NoFile
    /\ ow' = [ow EXCEPT !.pc = "done"]
    /\ UNCHANGED <<buffer_minutes, pending_delete, clock, event, call, cart, cartCall, repl, sess>>

\* the process is killed between two steps of the call
OwCrash ==
    /\ ow.pc \in {"begin", "header", "tmp_open", "tmp_written"}
    /\ ow' = [ow EXCEPT !.pc = "crashed"]
    /\ UNCHANGED <<csv, tmp>>
    /\ UNCHANGED <<buffer_minutes, pending_delete, clock, event, call, cart, cartCall, repl, sess>>

\* the call has returned, or the app was restarted after the crash
OwReturn ==
    /\ ow.pc \in {"done", "crashed"}
    /\ ow' = OwIdle
    /\ UNCHANGED <<csv, tmp>>
    /\ UNCHANGED <<buffer_minutes, pending_delete, clock, event, call, cart, cartCall, repl, sess>>

InitOw ==
    /\ csv \in OwFiles
    /\ tmp = NoFile
    /\ buffer_minutes = 0
    /\ pending_delete = NoneVal
    /\ clock = 0
    /\ event = NoEvent
    /\ call = NoCall
    /\ ow = OwIdle
    /\ cart = <<>>
    /\ cartCall = NoCartCall
    /\ repl = ReplIdle
    /\ sess = SessIdle

NextOw ==
    \/ OwBegin
    \/ OwTruncate
    \/ OwWriteHeader
    \/ OwOpenTmp
    \/ OwWriteTmp
    \/ OwReplace
    \/ OwCrash
    \/ OwReturn

SpecOw == InitOw /\ [][NextOw]_vars

---------------------------------------------------------------------------
(* The shopping cart of the e-commerce tracker; prices are in cents. *)

PRODUCTS ==
    << [name |-> "Wireless Earbuds", category |-> "Electronics", price |-> 5999],
       [name |-> "Yoga Mat", category |-> "Sports", price |-> 2450],
       [name |-> "Stainless Water Bottle", category |-> "Outdoor", price |-> 1995],
       [name |-> "Bluetooth Speaker", category |-> "Electronics", price |-> 8999],
       [name |-> "Smart LED Bulb", category |-> "Home", price |-> 1299] >>

\* most entries of the cart
MaxCart == 3

\* the names remove_from_cart is asked for: the products', and one of no product
RemovableNames == {PRODUCTS[i].name : i \in 1..Len(PRODUCTS)} \cup {"Gift Card"}

\* add_to_cart(cart, product)
add_to_cart(c, product) == Append(c, product)

\* cart.pop(i)
Pop(c, i) == SubSeq(c, 1, i - 1) \o SubSeq(c, i + 1, Len(c))

\* the loop of remove_from_cart from entry i on, all entries removed on the way
RECURSIVE RemoveEvery(_, _, _)
RemoveEvery(c, product_name, i) ==
    IF i > Len(c) THEN c
    ELSE IF c[i].name = product_name THEN RemoveEvery(Pop(c, i), product_name, i)
    ELSE RemoveEvery(c, product_name, i + 1)

\* the loop of remove_from_cart from entry i on: pop the first match and return
RECURSIVE RemoveFrom(_, _, _)
RemoveFrom(c, product_name, i) ==
    IF i > Len(c) THEN c
    ELSE IF c[i].name = product_name THEN Pop(c, i)
    ELSE RemoveFrom(c, product_name, i + 1)

\* remove_from_cart without the return after the pop
remove_every_from_cart(c, product_name) == RemoveEvery(c, product_name, 1)

\* remove_from_cart(cart, product_name)
remove_from_cart(c, product_name) == RemoveFrom(c, product_name, 1)

AddToCart(product) ==
    /\ Len(cart) < MaxCart
    /\ cart' = add_to_cart(cart, product)
    /\ cartCall' = [fn |-> "add", product |-> product, before |-> cart]
    /\ UNCHANGED <<csv, tmp, buffer_minutes, pending_delete, clock, event, call, ow, repl, sess>>

RemoveFromCart(product_name) ==
    /\ cart' = remove_from_cart(cart, product_name)
    /\ cartCall' = [fn |-> "remove", name |-> product_name, before |-> cart]
    /\ UNCHANGED <<csv, tmp, buffer_minutes, pending_delete, clock, event, call, ow, repl, sess>>

InitCart ==
    /\ csv = NoFile
    /\ tmp = NoFile
    /\ buffer_minutes = 0
    /\ pending_delete = NoneVal
    /\ clock = 0
    /\ event = NoEvent
    /\ call = NoCall
    /\ ow = OwIdle
    /\ cart = <<>>
    /\ cartCall = NoCartCall
    /\ repl = ReplIdle
    /\ sess = SessIdle

NextCart ==
    \/ \E i \in 1..Len(PRODUCTS) : AddToCart(PRODUCTS[i])
    \/ \E product_name \in RemovableNames : RemoveFromCart(product_name)

SpecCart == InitCart /\ [][NextCart]_vars

---------------------------------------------------------------------------
(* The text-analysis program, Task_3.py *)

LOWERS == <<"a", "b", "c", "d", "e", "f", "g", "h", "i", "j", "k", "l", "m",
            "n", "o", "p", "q", "r", "s", "t", "u", "v", "w", "x", "y", "z">>

UPPERS == <<"A", "B", "C", "D", "E", "F", "G", "H", "I", "J", "K", "L", "M",
            "N", "O", "P", "Q", "R", "S", "T", "U", "V", "W", "X", "Y", "Z">>

IsUpperChar(c) == \E i \in 1..Len(UPPERS) : UPPERS[i] = c

IsLowerChar(c) == \E i \in 1..Len(LOWERS) : LOWERS[i] = c

IsCased(c) == IsUpperChar(c) \/ IsLowerChar(c)

LowerChar(c) ==
    IF IsUpperChar(c) THEN LOWERS[CHOOSE i \in 1..Len(UPPERS) : UPPERS[i] = c] ELSE c

UpperChar(c) ==
    IF IsLowerChar(c) THEN UPPERS[CHOOSE i \in 1..Len(LOWERS) : LOWERS[i] = c] ELSE c

\* str.lower()
Lower(s) == [i \in 1..Len(s) |-> LowerChar(s[i])]

\* str.upper()
Upper(s) == [i \in 1..Len(s) |-> UpperChar(s[i])]

\* str.title(): a cased character is upper-cased after an uncased one (or at
\* the start) and lower-cased after a cased one.
Title(s) ==
    [i \in 1..Len(s) |->
        IF i > 1 /\ IsCased(s[i - 1]) THEN LowerChar(s[i]) ELSE UpperChar(s[i])]

\* len(s.split()): the number of maximal runs of non-space characters
WordCount(s) ==
    Cardinality({i \in 1..Len(s) : ~IsSpace(s[i]) /\ (i = 1 \/ IsSpace(s[i - 1]))})

\* analyze_text(s, strip_spaces=True)
analyze_text(s) ==
    LET s_proc == Strip(s)
    IN  [original   |-> s,
         processed  |-> s_proc,
         length     |-> Len(s_proc),
         count_char |-> Len(s_proc),
         word_count |-> WordCount(s_proc),
         title      |-> Title(s_proc),
         lower      |-> Lower(s_proc),
         upper      |-> Upper(s_proc),
         is_title   |-> s_proc = Title(s_proc),
         is_lower   |-> s_proc = Lower(s_proc),
         is_upper   |-> s_proc = Upper(s_proc)]

EXIT_WORDS == {<<"e", "x", "i", "t">>, <<"q", "u", "i", "t">>}

\* the test of line 60 taken on the line as typed
IsExitExact(s) == s \in EXIT_WORDS

\* s.lower() in ("exit", "quit")
IsExit(s) == Lower(s) \in EXIT_WORDS

\* what the loop prints: one entry per print of main's loop (pretty_print's
\* lines are one entry carrying the result dict)
Printed(kind, result) == [kind |-> kind, result |-> result]

\* the most lines standard input holds
MaxLines == 3

\* the lines that may be typed
ReplLines ==
    {EmptyStr,
     <<"e", "x", "i", "t">>,
     <<"E", "X", "I", "T">>,
     <<"Q", "u", "i", "t">>,
     <<" ", "e", "x", "i", "t">>,
     <<" ">>,
     <<"h", "i", " ", "B", "o", "b">>}

ReplInputs == UNION {[1..n -> ReplLines] : n \in 0..MaxLines}

ReplRest == <<csv, tmp, buffer_minutes, pending_delete, clock, event, call, ow,
              cart, cartCall, sess>>

\* input() raises EOFError: the loop prints the end-of-input message and breaks
ReplEof ==
    /\ repl.pc = "loop"
    /\ repl.pos = Len(repl.stdin)
    /\ repl' = [repl EXCEPT !.pc = "done",
                            !.out = Append(@, Printed("eof", NoneVal))]
    /\ UNCHANGED ReplRest

\* one pass of the loop that reads an empty line
ReplEmpty ==
    /\ repl.pc = "loop"
    /\ repl.pos < Len(repl.stdin)
    /\ \E s \in {repl.stdin[repl.pos + 1]} :
           /\ ~Truthy(s)
           /\ repl' = [repl EXCEPT !.pos = @ + 1,
                                   !.out = Append(@, Printed("retry", NoneVal))]
    /\ UNCHANGED ReplRest

\* one pass of the loop that reads exit or quit
ReplExit ==
    /\ repl.pc = "loop"
    /\ repl.pos < Len(repl.stdin)
    /\ \E s \in {repl.stdin[repl.pos + 1]} :
           /\ Truthy(s)
           /\ IsExit(s)
           /\ repl' = [repl EXCEPT !.pos = @ + 1,
                                   !.pc = "done",
                                   !.out = Append(@, Printed("exit", NoneVal))]
    /\ UNCHANGED ReplRest

\* one pass of the loop that analyses the line and prints the result
ReplAnalyze ==
    /\ repl.pc = "loop"
    /\ repl.pos < Len(repl.stdin)
    /\ \E s \in {repl.stdin[repl.pos + 1]} :
           /\ Truthy(s)
           /\ ~IsExit(s)
           /\ repl' = [repl EXCEPT !.pos = @ + 1,
                                   !.out = Append(@, Printed("analysis", analyze_text(s)))]
    /\ UNCHANGED ReplRest

InitRepl ==
    /\ csv = NoFile
    /\ tmp = NoFile
    /\ buffer_minutes = 0
    /\ pending_delete = NoneVal
    /\ clock = 0
    /\ event = NoEvent
    /\ call = NoCall
    /\ ow = OwIdle
    /\ cart = <<>>
    /\ cartCall = NoCartCall
    /\ sess = SessIdle
    /\ \E lines \in ReplInputs :
           repl = [pc |-> "loop", stdin |-> lines, pos |-> 0, out |-> <<>>]

NextRepl ==
    \/ ReplEof
    \/ ReplEmpty
    \/ ReplExit
    \/ ReplAnalyze

SpecRepl == InitRepl /\ [][NextRepl]_vars

---------------------------------------------------------------------------
(* Two browser sessions booking at once.  Streamlit runs each session's
   script in its own thread against the one appointments.csv; a step below is
   one session's code up to and including its next access to the file. *)

\* what is left of an older line when the header is written over the
\* beginning of a file that is no longer empty
REMNANT == <<"remnant">>

\* the file after writerow(header) at offset 0 of a handle opened with "w":
\* the header on an empty file; over a file another session has appended to
\* meanwhile, the header replaces the leading bytes, taking the first line
\* whole or leaving its tail as a line of its own
HeaderWritten(f) ==
    IF f.lines = <<>> THEN {[f EXCEPT !.lines = <<HEADER>>]}
    ELSE {[f EXCEPT !.lines = <<HEADER>> \o Tail(f.lines)],
          [f EXCEPT !.lines = <<HEADER, <<REMNANT>>>> \o Tail(f.lines)]}

TwoRest == <<tmp, buffer_minutes, pending_delete, event, call, ow, cart, cartCall, repl>>

\* "Book appointment" in session s, lines 190-211: validation, then
\* find_conflict reads the file
TwoSubmit(s) ==
    /\ sess[s].pc = "idle"
    /\ \E name \in Names, contact \in GoodContacts, d \in DatesAhead, t \in Times,
          issue_type \in Issues, notes \in NotesTyped :
           LET nd == IsoFormat(d)
               nt == StrfTime(t)
           IN  IF BookingErrors(name, contact, d)
               THEN UNCHANGED sess
               ELSE IF find_conflict(csv, nd, nt, NoneVal, sess[s].buffer)
               THEN UNCHANGED sess
               ELSE sess' = [sess EXCEPT ![s].pc = "stamp",
                                         ![s].form = [name |-> name, contact |-> contact,
                                                      nd |-> nd, nt |-> nt,
                                                      issue_type |-> issue_type,
                                                      notes |-> notes]]
    /\ UNCHANGED <<csv, clock>>
    /\ UNCHANGED TwoRest

\* lines 214-216 and 42, 35: the row is built with the time of now, then
\* ensure_csv_exists asks whether the file exists
TwoExists(s) ==
    /\ sess[s].pc = "stamp"
    /\ clock < MaxClock
    /\ clock' = clock + 1
    /\ \E form \in {sess[s].form} :
           sess' = [sess EXCEPT ![s].pc = IF csv.exists THEN "append" ELSE "create",
                                ![s].row = BookingRow(NowIso(clock'), form.name,
                                                      form.contact, form.nd, form.nt,
                                                      form.issue_type, form.notes)]
    /\ UNCHANGED csv
    /\ UNCHANGED TwoRest

\* line 36: open(path, "w") creates the file, or empties the one another
\* session has created since line 35
TwoCreate(s) ==
    /\ sess[s].pc = "create"
    /\ csv' = [exists |-> TRUE, lines |-> <<>>]
    /\ sess' = [sess EXCEPT ![s].pc = "header"]
    /\ UNCHANGED clock
    /\ UNCHANGED TwoRest

\* lines 37-38: the header is written when the with block closes the file
TwoHeader(s) ==
    /\ sess[s].pc = "header"
    /\ csv' \in HeaderWritten(csv)
    /\ sess' = [sess EXCEPT ![s].pc = "append"]
    /\ UNCHANGED clock
    /\ UNCHANGED TwoRest

\* lines 43-45: open(path, "a") and the row written at the end of the file;
\* the script run ends
TwoAppend(s) ==
    /\ sess[s].pc = "append"
    /\ csv' = [exists |-> TRUE, lines |-> Append(csv.lines, sess[s].row)]
    /\ sess' = [sess EXCEPT ![s] = [NoRun EXCEPT !.buffer = sess[s].buffer]]
    /\ UNCHANGED clock
    /\ UNCHANGED TwoRest

InitTwo ==
    /\ csv \in {NoFile, ensure_csv_exists(NoFile)}
    /\ tmp = NoFile
    /\ buffer_minutes = 0
    /\ pending_delete = NoneVal
    /\ clock = 0
    /\ event = NoEvent
    /\ call = NoCall
    /\ ow = OwIdle
    /\ cart = <<>>
    /\ cartCall = NoCartCall
    /\ repl = ReplIdle
    /\ sess \in [Sessions -> {[NoRun EXCEPT !.buffer = b] : b \in Buffers}]

NextTwo ==
    \/ \E s \in Sessions : TwoSubmit(s)
    \/ \E s \in Sessions : TwoExists(s)
    \/ \E s \in Sessions : TwoCreate(s)
    \/ \E s \in Sessions : TwoHeader(s)
    \/ \E s \in Sessions : TwoAppend(s)

SpecTwo == InitTwo /\ [][NextTwo]_vars

---------------------------------------------------------------------------
(* Properties of the booking page *)

Stored == read_appointments(csv)

\* the inverse of date.isoformat(), for texts of the form YYYY-MM-DD
ParseIso(s) ==
    [year |-> ToInt(SubSeq(s, 1, 4)), month |-> ToInt(SubSeq(s, 6, 7)),
     day |-> ToInt(SubSeq(s, 9, 10))]

IsLeap(y) == y % 4 = 0 /\ (y % 100 # 0 \/ y % 400 = 0)

DaysInMonth(y, m) ==
    IF m = 2 THEN (IF IsLeap(y) THEN 29 ELSE 28)
    ELSE IF m \in {4, 6, 9, 11} THEN 30 ELSE 31

RECURSIVE DaysBeforeMonth(_, _)
DaysBeforeMonth(y, m) ==
    IF m = 1 THEN 0 ELSE DaysBeforeMonth(y, m - 1) + DaysInMonth(y, m - 1)

\* the proleptic Gregorian day number of a date
Ordinal(d) ==
    LET y == d.year - 1
    IN  y * 365 + (y \div 4) - (y \div 100) + (y \div 400)
            + DaysBeforeMonth(d.year, d.month) + d.day

\* the minute a stored appointment starts at, on the combined date and time
StartMinute(r) ==
    Ordinal(ParseIso(Get(r, ColDate))) * 1440 + ParseMinutes(Get(r, ColTime)).total

\* C1: from an empty file, after any bookings, edits and confirmed deletions of
\* one session, under any buffer setting, no two stored appointments have the
\* same date and the same time.
C1_NoDoubleBooking ==
    \A i, j \in 1..Len(Stored) :
        i < j => ~(/\ Get(Stored[i], ColDate) = Get(Stored[j], ColDate)
                   /\ Get(Stored[i], ColTime) = Get(Stored[j], ColTime))

\* a second booking or an edit onto a taken slot was refused with the buffer off
C1_Witness ==
    /\ Len(Stored) >= 2
    /\ buffer_minutes = 0
    /\ event.kind \in {"book", "edit"}
    /\ event.outcome = "conflict"

\* C2: with the buffer setting fixed at B > 0, every two stored appointments are
\* more than B minutes apart on the combined date and time.
C2_BufferSeparation ==
    \A i, j \in 1..Len(Stored) :
        i < j => Abs(StartMinute(Stored[i]) - StartMinute(Stored[j])) > buffer_minutes

\* C6: an appointment leaves the file only in a "Confirm deletion" run, and then
\* it is the pending one; "Delete appointment" only records its id as pending;
\* "Cancel" only clears the pending id; the pending id is None or one stored id.
C6_DeleteOnlyWhenConfirmed ==
    [][/\ StoredIds(csv) \ StoredIds(csv') # {}
          => /\ event'.kind = "confirm"
             /\ StoredIds(csv) \ StoredIds(csv') = {pending_delete}
       /\ event'.kind = "delete"
          => /\ csv' = csv
             /\ pending_delete' = event'.ts
       /\ event'.kind = "cancel"
          => /\ csv' = csv
             /\ pending_delete' = NoneVal
       /\ pending_delete' \in {NoneVal} \cup StoredIds(csv')]_vars

\* a confirmed deletion removed the pending appointment and left another one
C6_Witness ==
    /\ event.kind = "confirm"
    /\ event.outcome = "deleted"
    /\ event.ts \notin StoredIds(csv)
    /\ Len(Stored) >= 1
    /\ pending_delete = NoneVal

\* text x is text raw without its leading and trailing blanks
IsTrimOf(x, raw) ==
    /\ x = <<>> \/ (x[1] # " " /\ x[Len(x)] # " ")
    /\ \E a, b \in 0..Len(raw) :
           /\ a + b + Len(x) = Len(raw)
           /\ \A i \in 1..a : raw[i] = " "
           /\ \A i \in 1..b : raw[Len(raw) - b + i] = " "
           /\ SubSeq(raw, a + 1, a + Len(x)) = x

IsBlank(raw) == \A i \in 1..Len(raw) : raw[i] = " "

\* C7: a booking with a name or a contact that is blank after trimming, or with
\* a date before today, is rejected with an error and the file keeps its rows.
C7_InvalidBookingStoresNothing ==
    [][(/\ event'.kind = "book"
        /\ \/ IsBlank(event'.name)
           \/ IsBlank(event'.contact)
           \/ Ordinal(event'.date) < Ordinal(Today))
       => /\ event'.outcome = "error"
          /\ csv' = csv
          /\ read_appointments(csv') = read_appointments(csv)]_vars

\* a name of blanks only was rejected while the file held an appointment
C7_Witness ==
    /\ event.kind = "book"
    /\ event.outcome = "error"
    /\ event.name # <<>> /\ IsBlank(event.name)
    /\ ~IsBlank(event.contact)
    /\ ~DateLess(event.date, Today)
    /\ Len(Stored) >= 1

\* the line a saved booking must add: a fresh timestamp, then the trimmed name,
\* the trimmed contact, the ISO date, the HH:MM time, the issue type, the notes
IsBookedLine(line, e, old) ==
    /\ Len(line) = 7
    /\ \A i \in 1..Len(old) : Get(old[i], ColTimestamp) # line[1]
    /\ IsTrimOf(line[2], e.name)
    /\ IsTrimOf(line[3], e.contact)
    /\ Len(line[4]) = 10 /\ line[4][5] = "-" /\ line[4][8] = "-"
    /\ ParseIso(line[4]) = e.date
    /\ Len(line[5]) = 5 /\ line[5][3] = ":"
    /\ ToInt(SubSeq(line[5], 1, 2)) = e.time.hour
    /\ ToInt(SubSeq(line[5], 4, 5)) = e.time.minute
    /\ line[6] = e.issue_type
    /\ IsTrimOf(line[7], e.notes)

\* C8: a booking that passes the validation and the conflict check appends one
\* row after the existing ones, holding the trimmed and formatted form values;
\* the earlier rows are unchanged and read_appointments returns them followed
\* by the new row.
C8_BookingAppendsOneRow ==
    [][(event'.kind = "book" /\ event'.outcome = "saved")
       => LET old == read_appointments(csv)
              new == read_appointments(csv')
          IN  /\ Len(new) = Len(old) + 1
              /\ SubSeq(new, 1, Len(old)) = old
              /\ new[Len(new)].fn = HEADER
              /\ IsBookedLine(new[Len(new)].v, event', old)
              /\ csv'.exists
              /\ Len(csv'.lines) = Len(new) + 1
              /\ csv.exists => SubSeq(csv'.lines, 1, Len(csv.lines)) = csv.lines]_vars

\* a booking typed with blanks around its values was saved after an earlier one
C8_Witness ==
    /\ event.kind = "book"
    /\ event.outcome = "saved"
    /\ Len(Stored) >= 2
    /\ Stored[Len(Stored)].v[2] # event.name
    /\ Stored[Len(Stored)].v[7] # event.notes

---------------------------------------------------------------------------
(* Properties of the file helpers *)

\* the rows of the file the last helper call started from, and those it left
Before == read_appointments(call.before)

\* the minute of the day of a well-formed HH:MM text
MinuteOfDay(s) == ToInt(SubSeq(s, 1, 2)) * 60 + ToInt(SubSeq(s, 4, 5))

\* a row the claim counts as conflicting, the ignored timestamp being ignored
\* only when given holds
Conflicting(r, given) ==
    /\ given => r.v[1] # call.ignore_ts
    /\ r.v[4] = call.date
    /\ IF call.buffer = 0
       THEN r.v[5] = call.time
       ELSE /\ call.buffer > 0
            /\ MinuteOfDay(r.v[5]) - MinuteOfDay(call.time)
                   \in (0 - call.buffer)..call.buffer

Dropped(rows, timestamp, i) ==
    Cardinality({j \in 1..(i - 1) : rows[j].v[1] = timestamp})

\* C4: delete_appointment returns True exactly when a stored row has the
\* timestamp; then no stored row has it afterwards and every other row is kept,
\* with its content, in the same relative order; on False the file is unchanged.
C4_DeleteResult ==
    call.fn = "delete" =>
        /\ call.ret <=> \E i \in 1..Len(Before) : Before[i].v[1] = call.timestamp
        /\ call.ret =>
              /\ \A i \in 1..Len(Stored) : Stored[i].v[1] # call.timestamp
              /\ Len(Stored) = Len(Before) - Dropped(Before, call.timestamp, Len(Before) + 1)
              /\ \A i \in 1..Len(Before) :
                     Before[i].v[1] # call.timestamp
                         => Stored[i - Dropped(Before, call.timestamp, i)] = Before[i]
        /\ ~call.ret => csv = call.before

\* a deletion removed two rows with the timestamp and kept a row between them
C4_Witness ==
    /\ call.fn = "delete"
    /\ call.ret
    /\ Len(Before) = 3
    /\ Before[1].v[1] = call.timestamp
    /\ Before[2].v[1] # call.timestamp
    /\ Before[3].v[1] = call.timestamp
    /\ Len(Stored) = 1

\* C5: update_appointment returns True exactly when a stored row has the
\* timestamp; then the first such row is replaced by new_row in place, every
\* other row is unchanged and the number of rows is the same; on False the file
\* is unchanged.
C5_UpdateResult ==
    call.fn = "update" =>
        /\ call.ret <=> \E i \in 1..Len(Before) : Before[i].v[1] = call.timestamp
        /\ call.ret =>
              /\ Len(Stored) = Len(Before)
              /\ \E k \in 1..Len(Before) :
                     /\ Before[k].v[1] = call.timestamp
                     /\ \A j \in 1..(k - 1) : Before[j].v[1] # call.timestamp
                     /\ Stored[k] = call.new_row
                     /\ \A i \in 1..Len(Before) : i # k => Stored[i] = Before[i]
        /\ ~call.ret => csv = call.before

\* an update replaced the first of two rows with the timestamp, after another row
C5_Witness ==
    /\ call.fn = "update"
    /\ call.ret
    /\ Len(Before) = 3
    /\ Before[1].v[1] # call.timestamp
    /\ Before[2].v[1] = call.timestamp
    /\ Before[3].v[1] = call.timestamp
    /\ Stored[2] = call.new_row
    /\ Stored[3] = Before[3]

---------------------------------------------------------------------------
(* Properties of the stepwise overwrite and of the cart *)

\* C9: at every step of overwrite_appointments, for the empty list too, the
\* file holds the complete old content or the complete new content with its
\* header line.
C9_OverwriteAtomic ==
    ow.pc # "idle" =>
        \/ csv = ow.old
        \/ /\ csv.exists
           /\ csv.lines # <<>>
           /\ csv.lines[1] = HEADER
           /\ read_appointments(csv) = ow.rows

\* C10: remove_from_cart removes the first entry with the name and nothing
\* else: the entries before and after it, later entries of the same name
\* included, stay in their order; a cart with no such entry is unchanged.
C10_RemoveFirstOnly ==
    cartCall.fn = "remove" =>
        LET before == cartCall.before
            hits == {i \in 1..Len(before) : before[i].name = cartCall.name}
        IN  IF hits = {} THEN cart = before
            ELSE \E k \in hits :
                    /\ \A j \in hits : k <= j
                    /\ Len(cart) = Len(before) - 1
                    /\ \A i \in 1..(k - 1) : cart[i] = before[i]
                    /\ \A i \in (k + 1)..Len(before) : cart[i - 1] = before[i]

\* an entry was removed from between another product and a later duplicate
C10_Witness ==
    /\ cartCall.fn = "remove"
    /\ Len(cartCall.before) = 3
    /\ cartCall.before[1].name # cartCall.name
    /\ cartCall.before[2].name = cartCall.name
    /\ cartCall.before[3].name = cartCall.name
    /\ cart = <<cartCall.before[1], cartCall.before[3]>>

---------------------------------------------------------------------------
(* Properties of the text-analysis loop *)

\* the line is the word exit or the word quit, each letter in either case
IsStopWord(s) ==
    /\ Len(s) = 4
    /\ \/ /\ s[1] \in {"e", "E"}
          /\ s[2] \in {"x", "X"}
          /\ s[3] \in {"i", "I"}
          /\ s[4] \in {"t", "T"}
       \/ /\ s[1] \in {"q", "Q"}
          /\ s[2] \in {"u", "U"}
          /\ s[3] \in {"i", "I"}
          /\ s[4] \in {"t", "T"}

\* C11: the loop stops at the first line that is exit or quit in any letter
\* case, or at end of input, and reads no line after it; an empty line prints
\* the retry message and no analysis; every other line read has exactly one
\* analysis, of that line, printed in input order before the next line is read.
C11_ReplLoop ==
    repl.pc # "off" =>
        LET in == repl.stdin
            n == repl.pos
            out == repl.out
            atEof == out # <<>> /\ out[Len(out)].kind = "eof"
        IN  /\ n <= Len(in)
            /\ \A i \in 1..(n - 1) : ~IsStopWord(in[i])
            /\ (n >= 1 /\ IsStopWord(in[n])) => repl.pc = "done"
            /\ repl.pc = "done" => \/ n >= 1 /\ IsStopWord(in[n])
                                   \/ n = Len(in) /\ atEof
            /\ atEof => repl.pc = "done" /\ n = Len(in)
            /\ Len(out) = n + (IF atEof THEN 1 ELSE 0)
            /\ \A i \in 1..n :
                   IF in[i] = EmptyStr THEN out[i].kind = "retry"
                   ELSE IF IsStopWord(in[i]) THEN out[i].kind = "exit"
                   ELSE /\ out[i].kind = "analysis"
                        /\ out[i].result.original = in[i]
                        /\ out[i].result.processed = Strip(in[i])

\* the loop has analysed a line and then stopped at an exit word typed with
\* capital letters, leaving a line unread
C11_Witness ==
    /\ repl.pc = "done"
    /\ repl.pos >= 2
    /\ repl.pos < Len(repl.stdin)
    /\ IsStopWord(repl.stdin[repl.pos])
    /\ repl.stdin[repl.pos] \notin EXIT_WORDS
    /\ repl.out[1].kind = "analysis"

---------------------------------------------------------------------------
(* Properties of two sessions booking at once *)

\* the stored lines that carry an appointment's date and time
Appointments ==
    SelectSeq(read_appointments(csv),
              LAMBDA r : Get(r, ColDate) # NoneVal /\ Get(r, ColTime) # NoneVal)

\* C12: with two browser sessions booking at the same time, their file reads
\* and writes interleaved in any order, no two stored appointments ever have
\* the same date and the same time.
C12_NoDoubleBookingTwoSessions ==
    \A i, j \in 1..Len(Appointments) :
        (/\ i # j
         /\ Get(Appointments[i], ColDate) = Get(Appointments[j], ColDate))
            => Get(Appointments[i], ColTime) # Get(Appointments[j], ColTime)

===========================================================================
